---- MODULE Spec2Model ----
(***************************************************************************)
(* The secure-environment subsystem of data-grabber: createSecureEnvironment *)
(* (security/index.js), IsolatedEnvironment and NetworkBlocker              *)
(* (security/isolation.js), SecureTemporaryStorage (security/               *)
(* secure-storage.js), secureDelete / secureDeleteDirectory (security/       *)
(* secure-delete.js) and MemoryProtection (security/memory.js).              *)
(*                                                                         *)
(* One Node.js process.  An action is one turn of the event loop: the      *)
(* synchronous code of a call or of an I/O completion, up to the next      *)
(* await of real I/O (fs.promises.*, child_process.exec).                  *)
(***************************************************************************)
EXTENDS Integers, Sequences, FiniteSets, TLC

\* ------------------------------------------------------------------ bounds
MaxEnvs == 2
MaxKeyLen == 1
MaxData == 1
MaxLen == 1
MaxCalls == 2
MaxNonce == 2
MaxNames == 1
MaxPathLen == 3

Envs == 1..MaxEnvs
\* A caller's key is a string: "a" stands for the characters _sanitizeKey
\* keeps, "/" for those of the class [/\\?%*:|"<>] it replaces by "_".
KeyChars == {"a", "_", "/"}
Unsafe == {"/"}
Keys == UNION {[1..n -> KeyChars] : n \in 1..MaxKeyLen}
\* The data of a store call: a byte sequence, the empty one included.
Bytes == 0..MaxData
Data == {<<>>} \cup UNION {[1..n -> Bytes] : n \in 1..MaxLen}
\* The storeData/retrieveData calls of one environment that may be in
\* flight at once.
Calls == 1..MaxCalls
Nonces == 1..MaxNonce
\* The values of options.name a caller passes, and the default name
\* `isolated-env-${Date.now()}` of the e-th environment.  The storage
\* directory of an environment named n is <tmpdir>/data-grabber/<n>-storage,
\* so a name is a directory.
Names == 1..MaxNames
DefaultName(e) == MaxNames + e
AllNames == 1..(MaxNames + MaxEnvs)

\* The longest name _sanitizeKey leaves as it is.
NameMax == 255
\* crypto.createHash('sha256').update(key).digest('hex'): taken to be
\* injective, and no sanitized key.
Hash(key) == <<"sha256">> \o key

\* SecureTemporaryStorage._sanitizeKey.
SanitizeKey(key) ==
  LET sanitized == [i \in 1..Len(key) |->
                      IF key[i] \in Unsafe THEN "_" ELSE key[i]]
  IN IF Len(sanitized) > NameMax THEN Hash(key) ELSE sanitized

\* The file names of a storage directory: ".metadata" and the sanitized keys.
Meta == <<".metadata">>
FileNames == {Meta} \cup {SanitizeKey(k) : k \in Keys}

\* --------------------------------------------------------- process globals
\* The patched entry points of the http, https and net modules.
NetPoints == {"http.request", "http.get", "https.request", "https.get",
              "net.Socket.connect", "net.Socket.connectTCP"}
\* The fs methods IsolatedEnvironment saves in originalFileHandles.
FsMethods == {"readFile", "writeFile", "readdir", "unlink"}
\* The fs methods _restrictFileSystem really replaces.
FsOverridden == {"readFile", "writeFile"}

\* A function installed at an entry point: Orig is the function installed
\* before the first environment, e \in Envs is the stub installed by
\* environment e, Undef is a Map.get of a missing entry.
Orig == 0
Undef == 0 - 1

\* The option sets createSecureEnvironment is called with: every option is
\* on in one and off in another.
OptionSets == {
  [blockNetwork |-> TRUE,  restrictFileSystem |-> TRUE,  protectMemory |-> TRUE],
  [blockNetwork |-> TRUE,  restrictFileSystem |-> FALSE, protectMemory |-> FALSE],
  [blockNetwork |-> FALSE, restrictFileSystem |-> TRUE,  protectMemory |-> TRUE] }

Platforms == {"darwin", "win32", "unix_shred", "unix_manual"}

MaxGuards == 2
MaxPasses == 3
MaxSize == 2
MaxDepth == 2
MaxRawLen == 3
Guards == 1..MaxGuards
\* The blocking stubs that NetworkBlocker g, constructed on its own, installs.
GuardStub(g) == MaxEnvs + g

VARIABLES
  proc,      \* "running" | "exited"
  platform,  \* os.platform(), with whether `which shred` succeeds
  netEntry,  \* [NetPoints -> Orig or an environment's blocking stub]
  fsEntry,   \* [FsMethods -> Orig or an environment's restricted stub]
  disk,      \* [AllNames -> the storage directory <tmpdir>/data-grabber/<n>-storage]
  env,       \* [Envs -> IsolatedEnvironment + its storage, blocker, memory]
  task,      \* [Envs -> [Slots -> a running destroy()/cleanup()]]
  op,        \* [Envs -> [Calls -> a storeData/retrieveData call in flight]]
  exec,      \* [Envs -> whether execute(fn) is awaiting fn]
  lastNet,   \* outcome of the last outbound network call attempt
  lastFs,    \* the last fs call through a patched entry point
  lastOp,    \* the storeData/retrieveData call that ended last, as it ended
  stored,    \* [Envs -> [Keys -> the data of the last completed store, if
             \*   no store on the key has begun since]]
  expect,    \* [Envs -> [Calls -> stored[key] when the retrieve was issued]]
  altered,   \* [AllNames -> [FileNames -> how the file was altered since it
             \*   was written, "none" if it was not]]
  lastDel,   \* the last direct secureDelete call, as it ended
  lastVer,   \* the last verifyDeletion call, as it ended
  guard,     \* [Guards -> a NetworkBlocker constructed on its own]
  ow,        \* a manual secure deletion of one file, pass by pass
  dd,        \* a secureDeleteDirectory call on a directory tree
  san        \* the last _sanitizeKey call: the key and the name returned

\* What the calls returned: history, read by no code.
\* The state of the components used on their own, outside an environment.
ext == <<guard, ow, dd, san>>

obs == <<lastOp, stored, expect, altered, lastDel, lastVer, ext>>

vars == <<proc, platform, netEntry, fsEntry, disk, env, task, op, exec,
          lastNet, lastFs, lastOp, stored, expect, altered, lastDel, lastVer,
          guard, ow, dd, san>>

\* ------------------------------------------------------------------ values
\* A file is its bytes: of a blob, the 16 bytes of the iv (nonce), the 16 of
\* the GCM tag and the ciphertext; kind tells the files with no such layout.
NoTag == [k |-> 0, iv |-> 0, ct |-> <<>>]
NoFile == [present |-> FALSE, kind |-> "absent", nonce |-> 0, tag |-> NoTag,
           ct |-> <<>>]
\* The .metadata record: JSON of created, name, platform and nodeVersion.
MetaFile == [NoFile EXCEPT !.present = TRUE, !.kind = "meta"]
\* A file of length zero: just opened with O_TRUNC.
EmptyFile == [NoFile EXCEPT !.present = TRUE, !.kind = "empty"]
\* A file overwritten in place: the same length, all zero bytes (the last
\* pass of overwriteFile and of shred -z).
ZeroFile(file) ==
  [NoFile EXCEPT !.present = TRUE, !.kind = "zeros",
                 !.ct = [i \in 1..Len(file.ct) |-> 0]]

\* AES-256-GCM under key k and nonce iv: the ciphertext is the plaintext
\* combined with a keystream of k and iv, byte by byte; the tag is a value
\* of k, iv and the ciphertext that no other triple yields.
KeyStream(k, iv, i) == (k + iv + i) % (MaxData + 1)
Mac(k, iv, ct) == [k |-> k, iv |-> iv, ct |-> ct]

\* An _encrypt that writes the data as they are.
EncryptNothing(k, iv, d) ==
  [present |-> TRUE, kind |-> "plain", nonce |-> iv, tag |-> NoTag, ct |-> d]

\* SecureTemporaryStorage._encrypt:
\* Buffer.concat([this.iv, authTag, encrypted]).
Encrypt(k, iv, d) ==
  LET ct == [i \in 1..Len(d) |-> (d[i] + KeyStream(k, iv, i)) % (MaxData + 1)]
  IN [present |-> TRUE, kind |-> "blob", nonce |-> iv, tag |-> Mac(k, iv, ct),
      ct |-> ct]

\* A _decrypt that never sets or checks the tag.
DecryptNoAuth(k, file) ==
  IF file.kind = "empty"
  THEN [res |-> "invalid_iv", data |-> <<>>]
  ELSE [res |-> "ok",
        data |-> [i \in 1..Len(file.ct) |->
                    (file.ct[i] + (MaxData + 1)
                       - KeyStream(k, file.nonce, i)) % (MaxData + 1)]]

\* SecureTemporaryStorage._decrypt of the bytes read: the first 16 bytes are
\* taken as the iv, the next 16 as the tag; createDecipheriv refuses an
\* empty iv and decipher.final() throws unless the tag verifies.
Decrypt(k, file) ==
  IF file.kind = "empty"
  THEN [res |-> "invalid_iv", data |-> <<>>]
  ELSE IF file.kind = "blob" /\ file.tag = Mac(k, file.nonce, file.ct)
       THEN [res |-> "ok",
             data |-> [i \in 1..Len(file.ct) |->
                         (file.ct[i] + (MaxData + 1)
                            - KeyStream(k, file.nonce, i)) % (MaxData + 1)]]
       ELSE [res |-> "integrity", data |-> <<>>]

\* A write of buf at position 0 of a file that holds cur: the bytes of cur
\* beyond the length of buf stay.
Overlay(buf, cur) ==
  [buf EXCEPT !.ct = buf.ct \o SubSeq(cur.ct, Len(buf.ct) + 1, Len(cur.ct))]

NoDir == [exists |-> FALSE, files |-> [f \in FileNames |-> NoFile]]

Slots == {"user", "envsig", "stsig"}
Steps == <<"net", "fs", "store", "mem">>

IdleTask == [pc |-> "idle", entries |-> {}, success |-> TRUE,
             outcome |-> "none", log |-> <<>>, fails |-> {},
             wasActive |-> FALSE, retry |-> FALSE, resolvedOnce |-> FALSE]

NoEnv == [pc |-> "none",
          opts |-> [blockNetwork |-> FALSE, restrictFileSystem |-> FALSE,
                    protectMemory |-> FALSE],
          name |-> 1,
          isActive |-> FALSE,
          secureStorage |-> FALSE,
          networkBlocker |-> FALSE,
          isBlocking |-> FALSE,
          originalRequests |-> [p \in NetPoints |-> Undef],
          originalFileHandles |-> [m \in FsMethods |-> Undef],
          isDestroyed |-> FALSE,
          iv |-> 0,
          keyZeroed |-> FALSE,
          protectionsActive |-> FALSE,
          gcInterval |-> FALSE,
          debuggerCheckInterval |-> FALSE]

\* A storeData/retrieveData call: buf is what store is writing; kind and
\* res stay from the call that ended last.
IdleOp == [pc |-> "idle", kind |-> "none", key |-> <<>>, data |-> <<>>,
           buf |-> NoFile, res |-> "none"]

Unknown == [known |-> FALSE, d |-> <<>>]
NoOp == [kind |-> "none", key |-> <<>>, res |-> "none", data |-> <<>>,
         saw |-> NoFile, expect |-> Unknown, altered |-> "none"]
\* new NetworkBlocker(): isBlocking false, an empty originalRequests map.
NoGuard == [pc |-> "none", isBlocking |-> FALSE,
            originalRequests |-> [p \in NetPoints |-> Undef],
            restored |-> FALSE]

\* The paths below the directory handed to secureDeleteDirectory, as
\* sequences of entry names: an entry "s" is a subdirectory, an entry "f" a
\* regular file; <<>> is the directory itself.
Dirs == UNION {[1..n -> {"s"}] : n \in 0..MaxDepth}
Nodes == Dirs \cup {d \o <<"f">> : d \in Dirs}
Parent(n) == SubSeq(n, 1, Len(n) - 1)
Children(t, d) == {n \in Nodes : n # <<>> /\ Parent(n) = d /\ t[n] # "absent"}
NoTree == [pc |-> "none",
           tree |-> [n \in Nodes |-> "absent"],
           start |-> [n \in Nodes |-> "absent"],
           stack |-> <<>>,
           wiped |-> {}]
\* The directory trees: every entry lies in a directory that is there.
Trees == {t \in [Nodes -> {"absent", "file", "dir"}] :
            /\ t[<<>>] = "dir"
            /\ \A n \in Nodes :
                 /\ t[n] = "dir" => n \in Dirs
                 /\ t[n] = "file" => n \notin Dirs
                 /\ (n # <<>> /\ t[n] # "absent") => t[Parent(n)] = "dir"}

\* No manual deletion under way.
NoOverwrite == [pc |-> "none", passes |-> 0, i |-> 0, size |-> 0,
                content |-> <<>>, device |-> <<>>, present |-> FALSE,
                failed |-> FALSE, log |-> <<>>]

NoDel == [io |-> "none", existed |-> FALSE, threw |-> FALSE, left |-> FALSE]
NoVer == [called |-> FALSE, present |-> FALSE, probe |-> "none",
          threw |-> FALSE, exists |-> FALSE, details |-> {}]

Init ==
  /\ proc = "running"
  /\ platform \in Platforms
  /\ netEntry = [p \in NetPoints |-> Orig]
  /\ fsEntry = [m \in FsMethods |-> Orig]
  /\ disk = [n \in AllNames |-> NoDir]
  /\ env = [e \in Envs |-> NoEnv]
  /\ task = [e \in Envs |-> [s \in Slots |-> IdleTask]]
  /\ op = [e \in Envs |-> [c \in Calls |-> IdleOp]]
  /\ exec = [e \in Envs |-> FALSE]
  /\ lastNet = "none"
  /\ lastFs = [method |-> "none", allowed |-> FALSE, restricted |-> FALSE,
               outcome |-> "none"]
  /\ lastOp = NoOp
  /\ stored = [e \in Envs |-> [k \in Keys |-> Unknown]]
  /\ expect = [e \in Envs |-> [c \in Calls |-> Unknown]]
  /\ altered = [n \in AllNames |-> [f \in FileNames |-> "none"]]
  /\ lastDel = NoDel
  /\ lastVer = NoVer
  /\ guard = [g \in Guards |-> NoGuard]
  /\ ow = NoOverwrite
  /\ dd = NoTree
  /\ san = [called |-> FALSE, key |-> <<>>, name |-> <<>>]

\* The part of the state the code of a turn reads and writes, as one value.
World == [proc |-> proc, net |-> netEntry, fs |-> fsEntry, disk |-> disk,
          env |-> env, task |-> task]

Apply(W) ==
  /\ proc' = W.proc
  /\ netEntry' = W.net
  /\ fsEntry' = W.fs
  /\ disk' = W.disk
  /\ env' = W.env
  /\ task' = W.task

\* ------------------------------------------------------- NetworkBlocker
\* _saveOriginalNetworking: whatever is installed now is kept as "original".
SaveOriginalNetworking(W, e) ==
  [W EXCEPT !.env[e].originalRequests = W.net]

\* _overrideNodeNetworking: every entry point becomes this blocker's stub.
OverrideNodeNetworking(W, e) ==
  [W EXCEPT !.net = [p \in NetPoints |-> e]]

\* _restoreNodeNetworking: every entry point becomes what this blocker saved.
RestoreNodeNetworking(W, e) ==
  [W EXCEPT !.net = W.env[e].originalRequests]

\* ---------------------------------------------------- filesystem patching
\* _restrictFileSystem: the four methods are saved, readFile and writeFile
\* are replaced; readdir and unlink are left as they were.
RestrictFileSystem(W, e) ==
  [W EXCEPT !.env[e].originalFileHandles = W.fs,
            !.fs = [m \in FsMethods |->
                      IF m \in FsOverridden THEN e ELSE W.fs[m]]]

\* _restoreFileSystem: every saved entry is written back, then the map is
\* cleared.
RestoreFileSystem(W, e) ==
  LET saved == W.env[e].originalFileHandles IN
  [W EXCEPT !.fs = [m \in FsMethods |->
                      IF saved[m] # Undef THEN saved[m] ELSE W.fs[m]],
            !.env[e].originalFileHandles = [m \in FsMethods |-> Undef]]

\* ------------------------------------------------------ _isPathAllowed
\* Absolute paths, as their sequences of components.
Segs == {"tmp", "storage", "cwd", "etc", ".."}
Paths == UNION {[1..n -> Segs] : n \in 1..MaxPathLen}
TmpDir == <<"tmp">>
Cwd == <<"cwd">>
\* path.join(os.tmpdir(), 'data-grabber', name + '-storage'), a directory
\* below the temp directory.
StoragePath == <<"tmp", "storage">>

\* path.normalize of an absolute path: '..' drops the component before it
\* and stays at the root.
RECURSIVE NormalizeFrom(_, _)
NormalizeFrom(stack, rest) ==
  IF rest = <<>> THEN stack
  ELSE LET h == Head(rest) IN
       IF h = ".."
       THEN NormalizeFrom(IF stack = <<>> THEN <<>>
                          ELSE SubSeq(stack, 1, Len(stack) - 1), Tail(rest))
       ELSE NormalizeFrom(Append(stack, h), Tail(rest))

Normalize(path) == NormalizeFrom(<<>>, path)

\* normalizedPath.startsWith(normalizedAllowedPath + path.sep)
StartsWithDir(np, na) == Len(np) > Len(na) /\ SubSeq(np, 1, Len(na)) = na

\* The allow-list _restrictFileSystem builds.
AllowedPaths == {StoragePath, TmpDir, Cwd}

IsPathAllowed(testPath, allowedPaths) ==
  \E a \in allowedPaths :
    \/ Normalize(testPath) = Normalize(a)
    \/ StartsWithDir(Normalize(testPath), Normalize(a))

\* ------------------------------------------------ createSecureEnvironment
\* Environments are numbered in the order they are constructed.
NextEnv == CHOOSE e \in Envs :
             /\ env[e].pc = "none"
             /\ \A j \in Envs : j < e => env[j].pc # "none"

\* MemoryProtection.activate: _disableCoreDumps awaits exec('ulimit -c 0') on
\* linux and darwin and awaits nothing on win32; _preventDebugging starts
\* the debugger-check interval and _scheduleGarbageCollection the
\* garbage-collection interval (Node started with --expose-gc).
ActivateMemory(W, e) ==
  IF ~W.env[e].opts.protectMemory
  THEN [W EXCEPT !.env[e].pc = "ready"]
  ELSE IF platform = "win32"
       THEN [W EXCEPT !.env[e].pc = "ready", !.env[e].protectionsActive = TRUE,
                      !.env[e].gcInterval = TRUE,
                      !.env[e].debuggerCheckInterval = TRUE]
       ELSE [W EXCEPT !.env[e].pc = "c_mem"]

\* IsolatedEnvironment.initialize from `if (this.restrictFileSystem)` on,
\* then createSecureEnvironment's memoryProtection.activate().
InitializeTail(W, e) ==
  LET W1 == IF W.env[e].opts.restrictFileSystem
            THEN RestrictFileSystem(W, e) ELSE W
      W2 == [W1 EXCEPT !.env[e].isActive = TRUE]
  IN ActivateMemory(W2, e)

\* IsolatedEnvironment.initialize after `await this.secureStorage
\* .initialize()`: the blocker saves and overrides the entry points and then
\* awaits the firewall command.
InitializeIsolation(W, e) ==
  IF W.env[e].opts.blockNetwork
  THEN LET W1 == [W EXCEPT !.env[e].networkBlocker = TRUE]
           W2 == SaveOriginalNetworking(W1, e)
           W3 == OverrideNodeNetworking(W2, e)
       IN [W3 EXCEPT !.env[e].pc = "c_fw"]
  ELSE InitializeTail(W, e)

\* createSecureEnvironment(options) up to the first await: the constructors
\* of IsolatedEnvironment and SecureTemporaryStorage (random key and iv, the
\* exit and signal handlers) and the call of ensureDirectoryExists.
Create(o, n, iv) ==
  /\ proc = "running"
  /\ \E e \in Envs : env[e].pc = "none"
  /\ n \in Names \cup {DefaultName(NextEnv)}
  /\ env' = [env EXCEPT ![NextEnv] =
               [NoEnv EXCEPT !.pc = "c_storage", !.opts = o, !.name = n,
                             !.secureStorage = TRUE, !.iv = iv]]
  /\ UNCHANGED <<proc, platform, netEntry, fsEntry, disk, task, op, exec,
                 lastNet, lastFs>>

\* SecureTemporaryStorage.initialize completes: mkdir -p of the storage
\* directory and the write of .metadata, either of which may fail; on
\* success initialize() goes on to the isolation.
CreateStorageDone(e, r) ==
  /\ proc = "running"
  /\ env[e].pc = "c_storage"
  /\ LET n == env[e].name
         made == [World EXCEPT !.disk[n].exists = TRUE]
         written == [made EXCEPT !.disk[n].files[Meta] = MetaFile]
     IN CASE r = "mkdir_fail" -> Apply([World EXCEPT !.env[e].pc = "failed"])
          [] r = "meta_fail" -> Apply([made EXCEPT !.env[e].pc = "failed"])
          [] OTHER -> Apply(InitializeIsolation(written, e))
  /\ UNCHANGED <<platform, op, exec, lastNet, lastFs>>

\* blockAll resumes after _configureSystemFirewall (its failure is caught
\* and logged) and initialize() runs to its end.
CreateFirewallDone(e) ==
  /\ proc = "running"
  /\ env[e].pc = "c_fw"
  /\ Apply(InitializeTail([World EXCEPT !.env[e].isBlocking = TRUE], e))
  /\ UNCHANGED <<platform, op, exec, lastNet, lastFs>>

\* memoryProtection.activate() resumes and the handle is returned.
CreateMemDone(e) ==
  /\ proc = "running"
  /\ env[e].pc = "c_mem"
  /\ env' = [env EXCEPT ![e].pc = "ready", ![e].protectionsActive = TRUE,
                        ![e].gcInterval = TRUE,
                        ![e].debuggerCheckInterval = TRUE]
  /\ UNCHANGED <<proc, platform, netEntry, fsEntry, disk, task, op, exec,
                 lastNet, lastFs>>

\* An outbound call through entry point p: the blocking stub fails it with
\* 'Network access blocked by security isolation', the original sends.
NetCall(p) ==
  /\ proc = "running"
  /\ lastNet' = IF netEntry[p] = Orig THEN "sent"
                ELSE IF netEntry[p] = Undef THEN "typeerror" ELSE "blocked"
  /\ UNCHANGED <<proc, platform, netEntry, fsEntry, disk, env, task, op,
                 exec, lastFs>>

\* ----------------------------------------------------- the exit handlers
\* A destroySync that zeroes the key and marks the storage destroyed
\* without removing the directory.
DestroySyncKeysOnly(W, e, fault) ==
  IF W.env[e].isDestroyed THEN W
  ELSE [W EXCEPT !.env[e].keyZeroed = TRUE,
                 !.env[e].isDestroyed = TRUE]

\* SecureTemporaryStorage.destroySync: rimrafSync of the storage directory,
\* then the key and iv are zeroed and isDestroyed is set; any fs error is
\* caught and false is returned with nothing marked.
DestroySync(W, e, fault) ==
  LET n == W.env[e].name IN
  IF W.env[e].isDestroyed THEN W
  ELSE IF fault /\ W.disk[n].exists THEN W
  ELSE [W EXCEPT !.disk[n] = NoDir,
                 !.env[e].keyZeroed = TRUE,
                 !.env[e].isDestroyed = TRUE]

\* IsolatedEnvironment._synchronousCleanup.
SynchronousCleanup(W, e, fault) ==
  LET W1 == IF W.env[e].secureStorage THEN DestroySync(W, e, fault) ELSE W
  IN [W1 EXCEPT !.env[e].isActive = FALSE]

\* The two 'exit' listeners of environment e, in the order they were
\* registered: IsolatedEnvironment's, then SecureTemporaryStorage's.
ExitHandlers(W, e, fault) ==
  LET W1 == IF W.env[e].isActive THEN SynchronousCleanup(W, e, fault) ELSE W
      W2 == DestroySync(W1, e, fault)
  IN IF W2.env[e].isDestroyed THEN W2
     ELSE [W2 EXCEPT !.task[e]["stsig"].fails = @ \cup {"sync"}]

RECURSIVE RunExitHandlers(_, _, _)
RunExitHandlers(W, e, sf) ==
  IF e > MaxEnvs THEN W
  ELSE IF W.env[e].pc = "none" THEN RunExitHandlers(W, e + 1, sf)
  ELSE RunExitHandlers(ExitHandlers(W, e, e \in sf), e + 1, sf)

\* process.exit(code): the 'exit' listeners run synchronously, then the
\* process is gone.
ProcessExit(W, sf) ==
  [RunExitHandlers(W, 1, sf) EXCEPT !.proc = "exited"]

\* ------------------------------------------------------- handle.destroy()
\* MemoryProtection.cleanup: clears the garbage-collection interval, and
\* that one only; never throws: an error after that is caught and false is
\* returned, which handle.destroy() does not look at.
MemoryCleanup(W, e, mf) ==
  IF mf
  THEN [W EXCEPT !.env[e].gcInterval = FALSE]
  ELSE [W EXCEPT !.env[e].gcInterval = FALSE,
                 !.env[e].protectionsActive = FALSE]

Append1(t, step) == [t EXCEPT !.log = Append(t.log, step)]

\* No catch: the error of cleanup() leaves handle.destroy() as a rejection.
OnCleanupThrowRethrows(t) == [t EXCEPT !.outcome = "rejected"]

\* The catch around `await isolatedEnv.cleanup()` in handle.destroy().
OnCleanupThrow(t) == [t EXCEPT !.success = FALSE]

\* handle.destroy() from `if (memoryProtection)` to `return success`.
HandleDestroyTail(W, e, t1, mf) ==
  IF t1.outcome = "rejected"
  THEN [W EXCEPT !.task[e]["user"] = [t1 EXCEPT !.pc = "done"]]
  ELSE LET mem == W.env[e].opts.protectMemory
           t2 == IF mem THEN Append1(t1, "mem") ELSE t1
           t3 == [t2 EXCEPT !.pc = "done", !.outcome = "resolved",
                            !.resolvedOnce = TRUE,
                            !.fails = IF mem /\ mf THEN @ \cup {"mem"} ELSE @]
           W1 == IF mem THEN MemoryCleanup(W, e, mf) ELSE W
       IN [W1 EXCEPT !.task[e]["user"] = t3]

\* A catch that returns false at once, skipping the memory cleanup.
FinishHandleDestroyReturnsInCatch(W, e, threw, mf) ==
  LET t0 == W.task[e]["user"]
  IN IF threw
     THEN [W EXCEPT !.task[e]["user"] =
             [t0 EXCEPT !.pc = "done", !.success = FALSE,
                        !.outcome = "resolved", !.resolvedOnce = TRUE]]
     ELSE HandleDestroyTail(W, e, t0, mf)

\* handle.destroy() after isolatedEnv.cleanup() settled.
FinishHandleDestroy(W, e, threw, mf) ==
  LET t0 == W.task[e]["user"]
  IN HandleDestroyTail(W, e, IF threw THEN OnCleanupThrow(t0) ELSE t0, mf)

\* isolatedEnv.cleanup() settled, for its caller: handle.destroy(), or a
\* signal handler of IsolatedEnvironment, which then calls process.exit.
CleanupSettled(W, e, s, threw, inp) ==
  IF s = "user"
  THEN FinishHandleDestroy(W, e, threw, inp.mf)
  ELSE ProcessExit([W EXCEPT !.task[e][s].pc = "done"], inp.sf)

\* A cleanup() that drops the storage and goes inactive even when
\* secureStorage.destroy() threw.
StorageSettledDropsStorage(W, e, s, threw, inp) ==
  IF s = "stsig"
  THEN ProcessExit([W EXCEPT !.task[e][s].pc = "done"], inp.sf)
  ELSE CleanupSettled([W EXCEPT !.env[e].secureStorage = FALSE,
                                !.env[e].isActive = FALSE,
                                !.task[e][s].fails =
                                   IF threw THEN @ \cup {"store"} ELSE @],
                      e, s, threw, inp)

\* secureStorage.destroy() settled, for its caller: cleanup() (which sets
\* secureStorage = null and isActive = false only if it did not throw), or
\* a signal handler of SecureTemporaryStorage, which then calls process.exit.
StorageSettled(W, e, s, threw, inp) ==
  IF s = "stsig"
  THEN ProcessExit([W EXCEPT !.task[e][s].pc = "done"], inp.sf)
  ELSE IF threw
       THEN CleanupSettled([W EXCEPT !.task[e][s].fails = @ \cup {"store"}],
                           e, s, TRUE, inp)
       ELSE CleanupSettled([W EXCEPT !.env[e].secureStorage = FALSE,
                                     !.env[e].isActive = FALSE],
                           e, s, FALSE, inp)

\* SecureTemporaryStorage.destroy() up to `await secureDeleteDirectory`.
StorageDestroyStart(W, e, s, inp) ==
  IF W.env[e].isDestroyed
  THEN StorageSettled(W, e, s, FALSE, inp)
  ELSE [W EXCEPT !.task[e][s].pc = "readdir"]

\* cleanup() after `await this.networkBlocker.restore()`.
CleanupAfterNet(W, e, s, hadBlocker, inp) ==
  LET W1 == IF hadBlocker THEN [W EXCEPT !.env[e].networkBlocker = FALSE] ELSE W
      W2 == IF W1.env[e].opts.restrictFileSystem
            THEN RestoreFileSystem(
                   [W1 EXCEPT !.task[e][s] = Append1(@, "fs")], e)
            ELSE W1
  IN IF W2.env[e].secureStorage
     THEN StorageDestroyStart(
            [W2 EXCEPT !.task[e][s] = Append1(@, "store")], e, s, inp)
     ELSE CleanupSettled([W2 EXCEPT !.env[e].isActive = FALSE],
                         e, s, FALSE, inp)

\* IsolatedEnvironment.cleanup() up to its first await of real I/O:
\* NetworkBlocker.restore puts the saved entry points back and awaits the
\* firewall command.
CleanupStart(W, e, s, inp) ==
  LET t == [IdleTask EXCEPT !.pc = "start", !.outcome = "pending",
                            !.wasActive = W.env[e].isActive,
                            !.retry = W.task[e][s].resolvedOnce,
                            !.resolvedOnce = W.task[e][s].resolvedOnce]
      W0 == [W EXCEPT !.task[e][s] = t]
  IN IF ~W.env[e].isActive
     THEN CleanupSettled(W0, e, s, FALSE, inp)
     ELSE IF W.env[e].networkBlocker
          THEN LET W1 == [W0 EXCEPT !.task[e][s] = Append1(@, "net")]
               IN IF W.env[e].isBlocking
                  THEN [RestoreNodeNetworking(W1, e) EXCEPT
                          !.task[e][s].pc = "fw"]
                  ELSE CleanupAfterNet(W1, e, s, TRUE, inp)
          ELSE CleanupAfterNet(W0, e, s, FALSE, inp)

\* The faults a turn may meet: mf, MemoryProtection.cleanup catches an
\* error; sf, the environments whose destroySync meets an fs error.  Only
\* handle.destroy() reaches the memory cleanup and only the signal handlers
\* reach process.exit.
Inputs(s) == IF s = "user"
             THEN [mf : BOOLEAN, sf : {{}}]
             ELSE [mf : {FALSE}, sf : SUBSET Envs]

\* What the I/O of one secureDelete meets: nothing; the shred command
\* failing; a write failing once (a second attempt would succeed); a write
\* failing every time.
IoFaults == {"ok", "shred_fails", "fails_once", "fails"}

\* secureDelete(file, {passes: 3}) on file f of directory n.  stat throws on
\* a missing file.  With shred present, `shred -vzn 3` overwrites the file
\* and leaves it in place, and the final verification throws; if the
\* command fails, the catch runs overwriteFile and unlink.  Elsewhere
\* overwriteFile, which gives up at the first failed write, is followed by
\* the unlink.  Returns the world and whether the call threw.
SecureDelete(W, n, f, io) ==
  LET file == W.disk[n].files[f]
      removed == [W EXCEPT !.disk[n].files[f] = NoFile]
      shredded == [W EXCEPT !.disk[n].files[f] = ZeroFile(file)]
  IN IF ~W.disk[n].exists \/ ~file.present
     THEN [W |-> W, threw |-> TRUE]
     ELSE IF platform = "unix_shred"
          THEN CASE io = "ok" -> [W |-> shredded, threw |-> TRUE]
                 [] io = "fails" -> [W |-> W, threw |-> TRUE]
                 [] OTHER -> [W |-> removed, threw |-> FALSE]
          ELSE IF io \in {"fails_once", "fails"}
               THEN [W |-> W, threw |-> TRUE]
               ELSE [W |-> removed, threw |-> FALSE]

\* handle.destroy() is called.
DestroyCall(e) ==
  /\ proc = "running"
  /\ env[e].pc = "ready"
  /\ task[e]["user"].pc \in {"idle", "done"}
  /\ \E inp \in Inputs("user") : Apply(CleanupStart(World, e, "user", inp))
  /\ UNCHANGED <<platform, op, exec, lastNet, lastFs>>

\* NetworkBlocker.restore resumes after _restoreSystemFirewall, whose
\* failure is caught and logged, and cleanup() goes on.
FirewallRestored(e, s, fwFail) ==
  /\ proc = "running"
  /\ task[e][s].pc = "fw"
  /\ \E inp \in Inputs(s) :
       Apply(CleanupAfterNet(
               [World EXCEPT !.env[e].isBlocking = FALSE,
                             !.task[e][s].fails =
                                IF fwFail THEN @ \cup {"net"} ELSE @],
               e, s, TRUE, inp))
  /\ UNCHANGED <<platform, op, exec, lastNet, lastFs>>

\* secureDeleteDirectory: readdir of the storage directory completes.
ReaddirDone(e, s) ==
  /\ proc = "running"
  /\ task[e][s].pc = "readdir"
  /\ LET n == env[e].name
         found == {f \in FileNames : disk[n].files[f].present}
     IN \E inp \in Inputs(s) :
          IF ~disk[n].exists
          THEN Apply(StorageSettled(World, e, s, TRUE, inp))
          ELSE Apply([World EXCEPT !.task[e][s].entries = found,
                        !.task[e][s].pc = IF found = {} THEN "rmdir" ELSE "del"])
  /\ UNCHANGED <<platform, op, exec, lastNet, lastFs>>

\* secureDeleteDirectory: secureDelete of one entry of the listing completes.
DeleteEntry(e, s, f, io) ==
  /\ proc = "running"
  /\ task[e][s].pc = "del"
  /\ f \in task[e][s].entries
  /\ LET r == SecureDelete(World, env[e].name, f, io)
         left == task[e][s].entries \ {f}
     IN \E inp \in Inputs(s) :
          IF r.threw
          THEN Apply(StorageSettled(r.W, e, s, TRUE, inp))
          ELSE Apply([r.W EXCEPT !.task[e][s].entries = left,
                        !.task[e][s].pc = IF left = {} THEN "rmdir" ELSE "del"])
  /\ UNCHANGED <<platform, op, exec, lastNet, lastFs>>

\* secureDeleteDirectory: rmdir completes; on success destroy() zeroes the
\* key and the iv and sets isDestroyed.
RmdirDone(e, s, io) ==
  /\ proc = "running"
  /\ task[e][s].pc = "rmdir"
  /\ LET n == env[e].name
         empty == \A f \in FileNames : ~disk[n].files[f].present
     IN \E inp \in Inputs(s) :
          IF ~disk[n].exists \/ ~empty \/ io = "fails"
          THEN Apply(StorageSettled(World, e, s, TRUE, inp))
          ELSE Apply(StorageSettled(
                       [World EXCEPT !.disk[n] = NoDir,
                                     !.env[e].keyZeroed = TRUE,
                                     !.env[e].isDestroyed = TRUE],
                       e, s, FALSE, inp))
  /\ UNCHANGED <<platform, op, exec, lastNet, lastFs>>

\* ------------------------------------------------ termination handlers
\* The SIGINT / SIGTERM / uncaughtException listeners of environment e, in
\* the order they were registered, each up to its first await:
\* IsolatedEnvironment's runs cleanup() if isActive, SecureTemporaryStorage's
\* runs destroy(); each calls process.exit when its call has settled.
SignalHandlers(W, e, inp) ==
  LET W1 == IF W.proc = "running" /\ W.env[e].isActive
            THEN CleanupStart(W, e, "envsig", inp)
            ELSE W
  IN IF W1.proc = "running"
     THEN StorageDestroyStart(
            [W1 EXCEPT !.task[e]["stsig"] =
               [IdleTask EXCEPT !.pc = "start", !.outcome = "pending"]],
            e, "stsig", inp)
     ELSE W1

RECURSIVE RunSignalHandlers(_, _, _)
RunSignalHandlers(W, e, inp) ==
  IF e > MaxEnvs THEN W
  ELSE IF W.env[e].pc = "none" THEN RunSignalHandlers(W, e + 1, inp)
  ELSE RunSignalHandlers(SignalHandlers(W, e, inp), e + 1, inp)

\* The process receives SIGINT or SIGTERM, or an exception reaches the top
\* of the event loop, for the first time.
Signal ==
  /\ proc = "running"
  /\ \E e \in Envs : env[e].pc # "none"
  /\ \A e \in Envs : \A s \in {"envsig", "stsig"} : task[e][s].pc = "idle"
  /\ \E inp \in Inputs("envsig") : Apply(RunSignalHandlers(World, 1, inp))
  /\ UNCHANGED <<platform, op, exec, lastNet, lastFs>>

\* The environments that are active when the process starts to exit.
NoteActive(W) ==
  [W EXCEPT !.task = [e \in Envs |->
     [W.task[e] EXCEPT !["envsig"].wasActive = @ \/ W.env[e].isActive]]]

\* The application calls process.exit, or the event loop runs empty.
ExitNow(sf) ==
  /\ proc = "running"
  /\ \E e \in Envs : env[e].pc # "none"
  /\ Apply(ProcessExit(NoteActive(World), sf))
  /\ UNCHANGED <<platform, op, exec, lastNet, lastFs>>

\* ------------------------------------- storeData, retrieveData, execute
\* The encryption key of environment e's storage: 32 random bytes, all
\* zero once destroy() or destroySync() has filled it.
EncryptionKey(e) == IF env[e].keyZeroed THEN 0 ELSE e

\* handle.storeData(k, d): IsolatedEnvironment.storeData checks isActive,
\* SecureTemporaryStorage.store checks isDestroyed, encrypts under the
\* storage's key and iv and calls fs.promises.writeFile.
StoreData(e, c, k, d) ==
  /\ proc = "running"
  /\ env[e].pc = "ready"
  /\ op[e][c].pc = "idle"
  /\ op' = [op EXCEPT ![e][c] =
       IF ~env[e].isActive THEN [IdleOp EXCEPT !.kind = "store", !.res = "inactive"]
       ELSE IF env[e].isDestroyed
            THEN [IdleOp EXCEPT !.kind = "store", !.res = "destroyed"]
            ELSE [IdleOp EXCEPT !.pc = "io", !.kind = "store", !.key = k,
                                !.data = d,
                                !.buf = Encrypt(EncryptionKey(e), env[e].iv, d),
                                !.res = "pending"]]
  /\ UNCHANGED <<proc, platform, netEntry, fsEntry, disk, env, task, exec,
                 lastNet, lastFs>>

\* handle.retrieveData(k): the same two checks, then fs.promises.readFile.
RetrieveData(e, c, k) ==
  /\ proc = "running"
  /\ env[e].pc = "ready"
  /\ op[e][c].pc = "idle"
  /\ op' = [op EXCEPT ![e][c] =
       IF ~env[e].isActive THEN [IdleOp EXCEPT !.kind = "retrieve", !.res = "inactive"]
       ELSE IF env[e].isDestroyed
            THEN [IdleOp EXCEPT !.kind = "retrieve", !.res = "destroyed"]
            ELSE [IdleOp EXCEPT !.pc = "io", !.kind = "retrieve", !.key = k,
                                !.res = "pending"]]
  /\ UNCHANGED <<proc, platform, netEntry, fsEntry, disk, env, task, exec,
                 lastNet, lastFs>>

\* writeFile opens the file with flag 'w': it is created or truncated to
\* length zero; ENOENT without the directory.
OpenDone(e, c) ==
  /\ proc = "running"
  /\ op[e][c].pc = "io"
  /\ op[e][c].kind = "store"
  /\ LET n == env[e].name
         f == SanitizeKey(op[e][c].key)
     IN IF disk[n].exists
        THEN /\ disk' = [disk EXCEPT ![n].files[f] = EmptyFile]
             /\ op' = [op EXCEPT ![e][c].pc = "write"]
        ELSE /\ disk' = disk
             /\ op' = [op EXCEPT ![e][c] =
                         [IdleOp EXCEPT !.kind = "store", !.res = "enoent"]]
  /\ UNCHANGED <<proc, platform, netEntry, fsEntry, env, task, exec,
                 lastNet, lastFs>>

\* What the call in flight returns when its I/O completes: store the path,
\* once writeFile has written; retrieve what _decrypt makes of the bytes
\* readFile returned (saw), or the error of either.
OpResult(e, c) ==
  LET n == env[e].name
      file == disk[n].files[SanitizeKey(op[e][c].key)]
      r == Decrypt(EncryptionKey(e), file)
  IN IF op[e][c].kind = "store"
     THEN [res |-> "ok", data |-> <<>>, saw |-> NoFile]
     ELSE IF disk[n].exists /\ file.present
          THEN [res |-> r.res, data |-> r.data, saw |-> file]
          ELSE [res |-> "enoent", data |-> <<>>, saw |-> NoFile]

\* The I/O of the call in flight completes.  writeFile writes its buffer
\* through its own descriptor, from position 0 (to no visible file if the
\* name was unlinked meanwhile); readFile returns the bytes of the file.
OpDone(e, c) ==
  /\ proc = "running"
  /\ \/ op[e][c].pc = "write"
     \/ op[e][c].pc = "io" /\ op[e][c].kind = "retrieve"
  /\ LET n == env[e].name
         f == SanitizeKey(op[e][c].key)
         file == disk[n].files[f]
     IN disk' = IF op[e][c].kind = "store" /\ disk[n].exists /\ file.present
                THEN [disk EXCEPT ![n].files[f] = Overlay(op[e][c].buf, file)]
                ELSE disk
  /\ op' = [op EXCEPT ![e][c] =
              [IdleOp EXCEPT !.kind = op[e][c].kind,
                             !.res = OpResult(e, c).res]]
  /\ UNCHANGED <<proc, platform, netEntry, fsEntry, env, task, exec,
                 lastNet, lastFs>>

\* handle.execute(fn): isActive is checked and fn is awaited.
Execute(e) ==
  /\ proc = "running"
  /\ env[e].pc = "ready"
  /\ ~exec[e]
  /\ env[e].isActive
  /\ exec' = [exec EXCEPT ![e] = TRUE]
  /\ UNCHANGED <<proc, platform, netEntry, fsEntry, disk, env, task, op,
                 lastNet, lastFs>>

\* fn returns or throws; execute passes either on.
ExecuteDone(e) ==
  /\ proc = "running"
  /\ exec[e]
  /\ exec' = [exec EXCEPT ![e] = FALSE]
  /\ UNCHANGED <<proc, platform, netEntry, fsEntry, disk, env, task, op,
                 lastNet, lastFs>>

\* ------------------------------------------------------------- fs calls
\* A call of fs[m](path): the original runs it; the restricted stub of
\* environment f rejects a path outside the allow-list with EACCES and
\* otherwise calls what f saved for m, which is undefined once f has
\* cleared its map.
RECURSIVE FsDispatch(_, _, _)
FsDispatch(m, path, f) ==
  IF f = Orig THEN "passed"
  ELSE IF f = Undef THEN "typeerror"
  ELSE IF ~IsPathAllowed(path, AllowedPaths) THEN "denied"
  ELSE FsDispatch(m, path, env[f].originalFileHandles[m])

\* Some environment created with restrictFileSystem is active and no
\* destroy() of it has begun.
FsRestricted ==
  \E e \in Envs :
    /\ env[e].isActive
    /\ env[e].opts.restrictFileSystem
    /\ task[e]["user"].pc = "idle"
    /\ ~task[e]["user"].resolvedOnce

FsCall(m, path) ==
  /\ proc = "running"
  /\ lastFs' = [method |-> m,
                allowed |-> IsPathAllowed(path, AllowedPaths),
                restricted |-> FsRestricted,
                outcome |-> FsDispatch(m, path, fsEntry[m])]
  /\ UNCHANGED <<proc, platform, netEntry, fsEntry, disk, env, task, op,
                 exec, lastNet>>

\* ------------------------------------------------------------ the model
TaskStep(e, s) ==
  \/ \E fwFail \in BOOLEAN : FirewallRestored(e, s, fwFail)
  \/ ReaddirDone(e, s)
  \/ \E f \in FileNames, io \in IoFaults : DeleteEntry(e, s, f, io)
  \/ \E io \in {"ok", "fails"} : RmdirDone(e, s, io)

\* One environment's whole life: the process creates a single environment
\* (under its default name) and uses and destroys it, with every fault; one
\* storage call at a time, of the empty data.
Next ==
  /\ UNCHANGED obs
  /\ \/ \E o \in OptionSets, iv \in Nonces :
          env[1].pc = "none" /\ Create(o, DefaultName(1), iv)
     \/ \E e \in Envs, r \in {"ok", "mkdir_fail", "meta_fail"} :
          CreateStorageDone(e, r)
     \/ \E e \in Envs : CreateFirewallDone(e)
     \/ \E e \in Envs : CreateMemDone(e)
     \/ \E e \in Envs : DestroyCall(e)
     \/ \E e \in Envs : TaskStep(e, "user")
     \/ \E e \in Envs, k \in Keys : StoreData(e, 1, k, <<>>)
     \/ \E e \in Envs, k \in Keys : RetrieveData(e, 1, k)
     \/ \E e \in Envs : OpenDone(e, 1)
     \/ \E e \in Envs : OpDone(e, 1)
     \/ \E e \in Envs : Execute(e)
     \/ \E e \in Envs : ExecuteDone(e)

Spec == Init /\ [][Next]_vars

\* Overlapping environments: up to MaxEnvs environments are created and
\* destroyed in any interleaving, under their default names.
NextIso ==
  /\ UNCHANGED obs
  /\ \/ \E o \in OptionSets : Create(o, DefaultName(NextEnv), 1)
     \/ \E e \in Envs : CreateStorageDone(e, "ok")
     \/ \E e \in Envs : CreateFirewallDone(e)
     \/ \E e \in Envs : CreateMemDone(e)
     \/ \E e \in Envs : DestroyCall(e)
     \/ \E e \in Envs : TaskStep(e, "user")
     \/ \E p \in NetPoints : NetCall(p)

SpecIso == Init /\ [][NextIso]_vars

\* One environment, and fs calls through the patched entry points.
NextFs ==
  /\ UNCHANGED obs
  /\ \/ \E o \in OptionSets :
          env[1].pc = "none" /\ Create(o, DefaultName(1), 1)
     \/ \E e \in Envs : CreateStorageDone(e, "ok")
     \/ \E e \in Envs : CreateFirewallDone(e)
     \/ \E e \in Envs : CreateMemDone(e)
     \/ \E e \in Envs : DestroyCall(e)
     \/ \E e \in Envs : TaskStep(e, "user")
     \/ \E m \in FsMethods, path \in Paths : FsCall(m, path)

SpecFs == Init /\ [][NextFs]_vars

\* One environment in use, and not yet asked to destroy itself, when the
\* process is told to terminate.
NextCrash ==
  /\ UNCHANGED obs
  /\ \/ \E o \in OptionSets :
          env[1].pc = "none" /\ Create(o, DefaultName(1), 1)
     \/ \E e \in Envs : CreateStorageDone(e, "ok")
     \/ \E e \in Envs : CreateFirewallDone(e)
     \/ \E e \in Envs : CreateMemDone(e)
     \/ \E e \in Envs, s \in {"envsig", "stsig"} : TaskStep(e, s)
     \/ \E e \in Envs, k \in Keys : StoreData(e, 1, k, <<>>)
     \/ \E e \in Envs : OpenDone(e, 1)
     \/ \E e \in Envs : OpDone(e, 1)
     \/ \E e \in Envs : Execute(e)
     \/ \E e \in Envs : ExecuteDone(e)
     \/ Signal
     \/ \E sf \in SUBSET Envs : ExitNow(sf)

SpecCrash == Init /\ [][NextCrash]_vars

\* -------------------------------------------------------------- history
\* A store on caller key k is in flight in environment e.
StoreInFlight(e, k) ==
  \E c \in Calls : /\ op[e][c].kind = "store"
                   /\ op[e][c].pc \in {"io", "write"}
                   /\ op[e][c].key = k

\* storeData(k, d) was called: if it was accepted, what was stored under k is
\* no longer known, nor what a retrieve of k in flight will find.
NoteStoreCall(e, c, k) ==
  /\ IF op'[e][c].pc = "io"
     THEN /\ stored' = [stored EXCEPT ![e][k] = Unknown]
          /\ expect' = [expect EXCEPT ![e] =
               [c2 \in Calls |->
                  IF /\ op[e][c2].pc = "io"
                     /\ op[e][c2].kind = "retrieve"
                     /\ op[e][c2].key = k
                  THEN Unknown ELSE expect[e][c2]]]
          /\ lastOp' = lastOp
     ELSE /\ lastOp' = [NoOp EXCEPT !.kind = "store", !.key = k,
                                    !.res = op'[e][c].res]
          /\ UNCHANGED <<stored, expect>>
  /\ UNCHANGED <<altered, lastDel, lastVer, ext>>

\* retrieveData(k) was called: what a completed store left under k.
NoteRetrieveCall(e, c, k) ==
  /\ IF op'[e][c].pc = "io"
     THEN /\ expect' = [expect EXCEPT ![e][c] = stored[e][k]]
          /\ lastOp' = lastOp
     ELSE /\ lastOp' = [NoOp EXCEPT !.kind = "retrieve", !.key = k,
                                    !.res = op'[e][c].res]
          /\ expect' = expect
  /\ UNCHANGED <<stored, altered, lastDel, lastVer, ext>>

\* The open of a store ended.
NoteOpen(e, c) ==
  /\ lastOp' = IF op'[e][c].pc = "idle"
               THEN [NoOp EXCEPT !.kind = "store", !.key = op[e][c].key,
                                 !.res = op'[e][c].res]
               ELSE lastOp
  /\ altered' = IF op'[e][c].pc = "write"
                THEN [altered EXCEPT
                        ![env[e].name][SanitizeKey(op[e][c].key)] = "none"]
                ELSE altered
  /\ UNCHANGED <<stored, expect, lastDel, lastVer, ext>>

\* A call ended: what it returned, and after a store with no other store on
\* its key in flight, what is stored under the key.
NoteDone(e, c) ==
  LET k == op[e][c].key
      r == OpResult(e, c)
      others == \E c2 \in Calls \ {c} : /\ op[e][c2].kind = "store"
                                        /\ op[e][c2].pc \in {"io", "write"}
                                        /\ op[e][c2].key = k
  IN /\ lastOp' = [kind |-> op[e][c].kind, key |-> k, res |-> r.res,
                   data |-> r.data, saw |-> r.saw,
                   expect |-> IF op[e][c].kind = "retrieve"
                              THEN expect[e][c] ELSE Unknown,
                   altered |-> IF op[e][c].kind = "retrieve"
                               THEN altered[env[e].name][SanitizeKey(k)]
                               ELSE "none"]
     /\ stored' = IF op[e][c].kind = "store" /\ ~others
                  THEN [stored EXCEPT ![e][k] =
                          [known |-> TRUE, d |-> op[e][c].data]]
                  ELSE stored
     /\ expect' = [expect EXCEPT ![e][c] = Unknown]
     /\ altered' = IF op[e][c].kind = "store"
                   THEN [altered EXCEPT ![env[e].name][SanitizeKey(k)] = "none"]
                   ELSE altered
     /\ UNCHANGED <<lastDel, lastVer, ext>>

\* One environment and its storage calls, up to MaxCalls at once, of every
\* key and data.
NextStore ==
  \/ /\ UNCHANGED obs
     /\ \/ \E o \in OptionSets :
             /\ env[1].pc = "none"
             /\ ~o.blockNetwork
             /\ Create(o, DefaultName(1), 1)
        \/ \E e \in Envs : CreateStorageDone(e, "ok")
        \/ \E e \in Envs : CreateMemDone(e)
  \/ \E e \in Envs, c \in Calls, k \in Keys, d \in Data :
       StoreData(e, c, k, d) /\ NoteStoreCall(e, c, k)
  \/ \E e \in Envs, c \in Calls, k \in Keys :
       RetrieveData(e, c, k) /\ NoteRetrieveCall(e, c, k)
  \/ \E e \in Envs, c \in Calls : OpenDone(e, c) /\ NoteOpen(e, c)
  \/ \E e \in Envs, c \in Calls : OpDone(e, c) /\ NoteDone(e, c)

\* The storage calls run no platform-dependent code.
InitStore == Init /\ platform = "darwin"

SpecStore == InitStore /\ [][NextStore]_vars

\* --------------------------------------------------------------- tamper
\* What may be done to a stored blob from outside the process: a bit of its
\* nonce, of its tag or of its ciphertext flipped (the tag becomes one that
\* no key yields), or the whole file replaced by another file of the
\* directory.
Alterations(n, f) ==
  LET file == disk[n].files[f] IN
     {[how |-> "nonce", file |-> [file EXCEPT !.nonce = v]] :
        v \in Nonces \ {file.nonce}}
  \cup {[how |-> "tag", file |-> [file EXCEPT !.tag = NoTag]]}
  \cup {[how |-> "ct", file |-> [file EXCEPT !.ct[iv[1]] = iv[2]]] :
        iv \in {x \in (1..Len(file.ct)) \X Bytes : file.ct[x[1]] # x[2]}}
  \cup {[how |-> "replace", file |-> disk[n].files[g]] :
        g \in {g \in FileNames \ {f} :
                 /\ disk[n].files[g].kind = "blob"
                 /\ disk[n].files[g] # file}}

\* A stored file that nothing is writing is altered, once.
Tamper(n, f, a) ==
  /\ proc = "running"
  /\ disk[n].exists
  /\ disk[n].files[f].kind = "blob"
  /\ altered[n][f] = "none"
  /\ \A e \in Envs : \A c \in Calls : op[e][c].pc = "idle"
  /\ a \in Alterations(n, f)
  /\ disk' = [disk EXCEPT ![n].files[f] = a.file]
  /\ altered' = [altered EXCEPT ![n][f] = a.how]
  /\ UNCHANGED <<proc, platform, netEntry, fsEntry, env, task, op, exec,
                 lastNet, lastFs, lastOp, stored, expect, lastDel, lastVer,
                 ext>>

\* One environment, one storage call at a time, and stored files altered
\* behind its back.
NextTamper ==
  \/ /\ UNCHANGED obs
     /\ \/ \E o \in OptionSets :
             /\ env[1].pc = "none"
             /\ ~o.blockNetwork
             /\ Create(o, DefaultName(1), 1)
        \/ \E e \in Envs : CreateStorageDone(e, "ok")
        \/ \E e \in Envs : CreateMemDone(e)
  \/ \E e \in Envs, k \in Keys, d \in Data :
       StoreData(e, 1, k, d) /\ NoteStoreCall(e, 1, k)
  \/ \E e \in Envs, k \in Keys :
       RetrieveData(e, 1, k) /\ NoteRetrieveCall(e, 1, k)
  \/ \E e \in Envs : OpenDone(e, 1) /\ NoteOpen(e, 1)
  \/ \E e \in Envs : OpDone(e, 1) /\ NoteDone(e, 1)
  \/ \E n \in AllNames, f \in FileNames :
       \E a \in Alterations(n, f) : Tamper(n, f, a)

SpecTamper == InitStore /\ [][NextTamper]_vars

\* ------------------------------------------------------------ ownership
\* Overlapping environments created with a name option or without one, each
\* storing and being destroyed, with no I/O fault.
NextOwn ==
  /\ UNCHANGED obs
  /\ \/ /\ \E e \in Envs : env[e].pc = "none"
        /\ \E o \in OptionSets, n \in Names \cup {DefaultName(NextEnv)} :
             ~o.blockNetwork /\ Create(o, n, 1)
     \/ \E e \in Envs : CreateStorageDone(e, "ok")
     \/ \E e \in Envs : CreateMemDone(e)
     \/ \E e \in Envs : DestroyCall(e)
     \/ \E e \in Envs : ReaddirDone(e, "user")
     \/ \E e \in Envs, f \in FileNames : DeleteEntry(e, "user", f, "ok")
     \/ \E e \in Envs : RmdirDone(e, "user", "ok")
     \/ \E e \in Envs : StoreData(e, 1, <<"a">>, <<>>)
     \/ \E e \in Envs : OpenDone(e, 1)
     \/ \E e \in Envs : OpDone(e, 1)

SpecOwn == InitStore /\ [][NextOwn]_vars

\* ------------------------------------------- secureDelete, verifyDeletion
\* secureDelete(path) called on file f of directory n, whose I/O meets io.
SecureDeleteCall(n, f, io) ==
  /\ proc = "running"
  /\ \A e \in Envs : \A c \in Calls : op[e][c].pc = "idle"
  /\ LET r == SecureDelete(World, n, f, io)
     IN /\ Apply(r.W)
        /\ lastDel' = [io |-> io,
                       existed |-> disk[n].exists /\ disk[n].files[f].present,
                       threw |-> r.threw,
                       left |-> r.W.disk[n].files[f].present]
  /\ UNCHANGED <<platform, op, exec, lastNet, lastFs,
                 lastOp, stored, expect, altered, lastVer, ext>>

\* What fs.promises.access(path, F_OK) can answer for a path that is there
\* or is not: a directory on the way that may not be searched fails the
\* call with EACCES either way.
Probes(present) == IF present THEN {"ok", "EACCES"} ELSE {"ENOENT", "EACCES"}

\* What isPathOnSSD answers: the command says solid state, says otherwise,
\* or fails (caught, false); a platform other than darwin, linux and win32
\* runs no command.
Media == {"ssd", "hdd", "fails"}

\* verifyDeletion(path) on file f of directory n.
VerifyDeletion(n, f, probe, medium) ==
  /\ proc = "running"
  /\ LET present == disk[n].exists /\ disk[n].files[f].present
         isSSD == medium = "ssd"
     IN /\ probe \in Probes(present)
        /\ lastVer' = [called |-> TRUE,
                       present |-> present,
                       probe |-> probe,
                       threw |-> FALSE,
                       exists |-> probe = "ok",
                       details |->
                         (CASE probe = "ok" -> {"still exists"}
                            [] probe = "ENOENT" -> {"does not exist"}
                            [] OTHER -> {"Error checking path"})
                         \cup {"Storage type"}
                         \cup (IF isSSD THEN {"wear leveling", "TRIM"} ELSE {})]
  /\ UNCHANGED <<proc, platform, netEntry, fsEntry, disk, env, task, op, exec,
                 lastNet, lastFs, lastOp, stored, expect, altered, lastDel,
                 ext>>

\* One environment's stored files, deleted and verified one by one on
\* every platform.
NextDel ==
  \/ /\ UNCHANGED obs
     /\ \/ \E o \in OptionSets :
             /\ env[1].pc = "none"
             /\ ~o.blockNetwork
             /\ Create(o, DefaultName(1), 1)
        \/ \E e \in Envs : CreateStorageDone(e, "ok")
        \/ \E e \in Envs : CreateMemDone(e)
        \/ \E e \in Envs, k \in Keys, d \in Data : StoreData(e, 1, k, d)
        \/ \E e \in Envs : OpenDone(e, 1)
        \/ \E e \in Envs : OpDone(e, 1)
  \/ \E f \in FileNames, io \in IoFaults :
       SecureDeleteCall(DefaultName(1), f, io)
  \/ \E f \in FileNames, probe \in {"ok", "ENOENT", "EACCES"},
        medium \in Media :
       VerifyDeletion(DefaultName(1), f, probe, medium)

SpecDel == Init /\ [][NextDel]_vars

\* ------------------------------------------- NetworkBlocker on its own
\* The variables a call on a NetworkBlocker leaves alone.
GuardFrame ==
  UNCHANGED <<proc, platform, fsEntry, disk, env, task, op, exec, lastNet,
              lastFs, lastOp, stored, expect, altered, lastDel, lastVer, ow, dd,
              san>>

\* new NetworkBlocker() and initialize(): the entry points installed now
\* are saved as the originals.
GuardInitialize(g) ==
  /\ guard[g].pc = "none"
  /\ guard' = [guard EXCEPT ![g].pc = "idle", ![g].originalRequests = netEntry]
  /\ UNCHANGED netEntry
  /\ GuardFrame

\* blockAll(): returns at once if isBlocking; otherwise installs the stubs
\* and awaits the firewall command.
GuardBlockAll(g) ==
  /\ guard[g].pc = "idle"
  /\ IF guard[g].isBlocking
     THEN UNCHANGED <<guard, netEntry>>
     ELSE /\ netEntry' = [p \in NetPoints |-> GuardStub(g)]
          /\ guard' = [guard EXCEPT ![g].pc = "fw_block"]
  /\ GuardFrame

\* blockAll() resumes after _configureSystemFirewall, whose failure is
\* caught and logged.
GuardBlockAllDone(g) ==
  /\ guard[g].pc = "fw_block"
  /\ guard' = [guard EXCEPT ![g].pc = "idle", ![g].isBlocking = TRUE]
  /\ UNCHANGED netEntry
  /\ GuardFrame

\* restore(): returns at once unless isBlocking; otherwise puts the saved
\* entry points back and awaits the firewall command.
GuardRestore(g) ==
  /\ guard[g].pc = "idle"
  /\ IF ~guard[g].isBlocking
     THEN UNCHANGED <<guard, netEntry>>
     ELSE /\ netEntry' = guard[g].originalRequests
          /\ guard' = [guard EXCEPT ![g].pc = "fw_restore",
                                    ![g].restored = TRUE]
  /\ GuardFrame

\* restore() resumes after _restoreSystemFirewall.
GuardRestoreDone(g) ==
  /\ guard[g].pc = "fw_restore"
  /\ guard' = [guard EXCEPT ![g].pc = "idle", ![g].isBlocking = FALSE]
  /\ UNCHANGED netEntry
  /\ GuardFrame

\* NetworkBlocker instances used directly, and calls through the entry
\* points.
NextGuard ==
  \/ \E g \in Guards : GuardInitialize(g)
  \/ \E g \in Guards : GuardBlockAll(g)
  \/ \E g \in Guards : GuardBlockAllDone(g)
  \/ \E g \in Guards : GuardRestore(g)
  \/ \E g \in Guards : GuardRestoreDone(g)
  \/ \E p \in NetPoints : NetCall(p) /\ UNCHANGED obs

SpecGuard == Init /\ [][NextGuard]_vars

\* ------------------------------------------------- manual secure deletion
\* Buffer.alloc(fileSize, b) and crypto.randomBytes(fileSize): size bytes,
\* each the data that was stored ("d"), 0xFF ("1"), 0x00 ("0") or random
\* ("r").
Fill(size, b) == [x \in 1..size |-> b]

\* A pass loop that writes the zeros when the pass is the last one, whether
\* or not it is the first.
PatternLastFirst(i, passes) ==
  IF i = passes - 1 THEN "0" ELSE IF i = 0 THEN "1" ELSE "r"

\* overwriteFile: the pattern of pass i of passes.
Pattern(i, passes) ==
  IF i = 0 THEN "1" ELSE IF i = passes - 1 THEN "0" ELSE "r"

\* A pass loop that ends after its first pass.
AfterSyncOnePass(i, passes) == "close"

\* overwriteFile: `for (let i = 0; i < passes; i++)` after the sync of
\* pass i.
AfterSync(i, passes) == IF i + 1 < passes THEN "write" ELSE "close"

\* secureDeleteMac(filePath, passes) (the Windows branch and the Unix
\* fallback alike) on a file of size bytes: overwriteFile has awaited stat
\* and open.
OverwriteStart(passes, size) ==
  /\ ow.pc = "none"
  /\ platform # "unix_shred"
  /\ ow' = [NoOverwrite EXCEPT
              !.pc = IF 0 < passes THEN "write" ELSE "close",
              !.passes = passes, !.size = size,
              !.content = Fill(size, "d"), !.device = Fill(size, "d"),
              !.present = TRUE]

\* await fileHandle.write(pattern, 0, fileSize, 0) settles.
OverwriteWrite(ok) ==
  /\ ow.pc = "write"
  /\ ow' = IF ok
           THEN [ow EXCEPT
                   !.pc = "sync",
                   !.content = Fill(ow.size, Pattern(ow.i, ow.passes)),
                   !.log = Append(@, [ev |-> "write", i |-> ow.i,
                                      len |-> ow.size,
                                      pat |-> Pattern(ow.i, ow.passes)])]
           ELSE [ow EXCEPT !.pc = "close", !.failed = TRUE]

\* await fileHandle.sync() settles.
OverwriteSync(ok) ==
  /\ ow.pc = "sync"
  /\ ow' = IF ok
           THEN [ow EXCEPT
                   !.pc = AfterSync(ow.i, ow.passes),
                   !.device = ow.content,
                   !.i = ow.i + 1,
                   !.log = Append(@, [ev |-> "sync", i |-> ow.i,
                                      len |-> ow.size, pat |-> "none"])]
           ELSE [ow EXCEPT !.pc = "close", !.failed = TRUE]

\* finally { await fileHandle.close() }: the error of a failed write or
\* sync goes on to the caller, which does not unlink.
OverwriteClose ==
  /\ ow.pc = "close"
  /\ ow' = [ow EXCEPT !.pc = IF ow.failed THEN "threw" ELSE "unlink"]

\* await fs.promises.unlink(filePath) settles.
OverwriteUnlink ==
  /\ ow.pc = "unlink"
  /\ ow' = [ow EXCEPT !.pc = "done", !.present = FALSE,
                      !.log = Append(@, [ev |-> "unlink", i |-> ow.i,
                                         len |-> 0, pat |-> "none"])]

\* Manual secure deletions of files of every size with every number of
\* passes.
NextOverwrite ==
  /\ UNCHANGED <<proc, platform, netEntry, fsEntry, disk, env, task, op,
                 exec, lastNet, lastFs, lastOp, stored, expect, altered,
                 lastDel, lastVer, guard, dd, san>>
  /\ \/ \E passes \in 0..MaxPasses, size \in 0..MaxSize :
          OverwriteStart(passes, size)
     \/ \E ok \in BOOLEAN : OverwriteWrite(ok)
     \/ \E ok \in BOOLEAN : OverwriteSync(ok)
     \/ OverwriteClose
     \/ OverwriteUnlink

SpecOverwrite == Init /\ [][NextOverwrite]_vars

\* --------------------------------------------------- secureDeleteDirectory
\* Whether the secureDelete of an existing regular file removes it (it
\* throws otherwise): see SecureDelete.
Removes(io) ==
  IF platform = "unix_shred"
  THEN io \in {"shred_fails", "fails_once"}
  ELSE io \in {"ok", "shred_fails"}

\* An rmdir that removes the directory whatever is in it.
RmdirForce(t, d, ok) == FALSE

\* fs.promises.rmdir(dirPath) fails: the directory is not empty
\* (ENOTEMPTY), is not there, or an I/O error.
RmdirFails(t, d, ok) == ~ok \/ t[d] # "dir" \/ Children(t, d) # {}

DirFrame ==
  UNCHANGED <<proc, platform, netEntry, fsEntry, disk, env, task, op, exec,
              lastNet, lastFs, lastOp, stored, expect, altered, lastDel,
              lastVer, guard, ow, san>>

\* A directory tree is there.
DirSetup(t) ==
  /\ dd.pc = "none"
  /\ dd' = [NoTree EXCEPT !.pc = "ready", !.tree = t, !.start = t]
  /\ DirFrame

\* secureDeleteDirectory(dirPath, options) is called and awaits readdir.
DirDeleteCall ==
  /\ dd.pc = "ready"
  /\ dd' = [dd EXCEPT !.pc = "running",
                      !.stack = <<[dir |-> <<>>, read |-> FALSE,
                                   entries |-> {}]>>]
  /\ DirFrame

\* readdir of the directory of the innermost call settles.
DirReaddir ==
  /\ dd.pc = "running"
  /\ LET k == Len(dd.stack)
         fr == dd.stack[k]
     IN /\ ~fr.read
        /\ dd' = IF dd.tree[fr.dir] # "dir"
                 THEN [dd EXCEPT !.pc = "threw"]
                 ELSE [dd EXCEPT !.stack[k].read = TRUE,
                                 !.stack[k].entries = Children(dd.tree, fr.dir)]
  /\ DirFrame

\* The loop of the innermost call takes entry c: a subdirectory starts a
\* recursive call, anything else goes to secureDelete, whose I/O meets io.
DirEntry(c, io) ==
  /\ dd.pc = "running"
  /\ LET k == Len(dd.stack)
         fr == dd.stack[k]
     IN /\ fr.read
        /\ c \in fr.entries
        /\ dd' = IF c \in Dirs
                 THEN [dd EXCEPT !.stack = Append(@, [dir |-> c, read |-> FALSE,
                                                      entries |-> {}])]
                 ELSE IF dd.tree[c] = "file" /\ Removes(io)
                      THEN [dd EXCEPT !.tree[c] = "absent",
                                      !.wiped = @ \cup {c},
                                      !.stack[k].entries = @ \ {c}]
                      ELSE [dd EXCEPT !.pc = "threw"]
  /\ DirFrame

\* rmdir of the directory of the innermost call settles; the call returns
\* true to the loop that made it.
DirRmdir(ok) ==
  /\ dd.pc = "running"
  /\ LET k == Len(dd.stack)
         fr == dd.stack[k]
     IN /\ fr.read
        /\ fr.entries = {}
        /\ dd' = IF RmdirFails(dd.tree, fr.dir, ok)
                 THEN [dd EXCEPT !.pc = "threw"]
                 ELSE IF k = 1
                      THEN [dd EXCEPT !.tree[fr.dir] = "absent",
                                      !.stack = <<>>, !.pc = "done"]
                      ELSE [dd EXCEPT !.tree[fr.dir] = "absent",
                                      !.stack = [SubSeq(dd.stack, 1, k - 1)
                                                   EXCEPT ![k - 1].entries =
                                                            @ \ {fr.dir}]]
  /\ DirFrame

\* Some other code creates a regular file in a directory of the tree while
\* the deletion is under way.
DirAddFile(c) ==
  /\ dd.pc = "running"
  /\ c \in Nodes \ Dirs
  /\ dd.tree[c] = "absent"
  /\ dd.tree[Parent(c)] = "dir"
  /\ dd' = [dd EXCEPT !.tree[c] = "file"]
  /\ DirFrame

NextDir ==
  \/ \E t \in Trees : DirSetup(t)
  \/ DirDeleteCall
  \/ DirReaddir
  \/ \E c \in Nodes, io \in IoFaults : DirEntry(c, io)
  \/ \E ok \in BOOLEAN : DirRmdir(ok)
  \/ \E c \in Nodes : DirAddFile(c)

SpecDir == Init /\ [][NextDir]_vars

\* ----------------------------------------------------------- _sanitizeKey
\* The key strings handed to store, retrieve and remove: of any length from
\* zero, over a letter, '_', '/' and '.'.
RawKeys == UNION {[1..n -> KeyChars \cup {"."}] : n \in 0..MaxRawLen}

\* Where path.join(storagePath, name) lies: path.join normalizes, so an
\* empty name and '.' give the storage directory itself and '..' its
\* parent; a name with a separator gives a path further down or up.
JoinStoragePath(name) ==
  IF \E i \in 1..Len(name) : name[i] = "/" THEN "elsewhere"
  ELSE IF name \in {<<>>, <<".">>} THEN "storagePath"
  ELSE IF name = <<".", ".">> THEN "basePath"
  ELSE "child"

\* this._sanitizeKey(key) is called.
SanitizeCall(key) ==
  /\ san' = [called |-> TRUE, key |-> key, name |-> SanitizeKey(key)]
  /\ UNCHANGED <<proc, platform, netEntry, fsEntry, disk, env, task, op,
                 exec, lastNet, lastFs, lastOp, stored, expect, altered,
                 lastDel, lastVer, guard, ow, dd>>

NextSanitize == \E key \in RawKeys : SanitizeCall(key)

SpecSanitize == Init /\ [][NextSanitize]_vars

\* ================================================================ claims
Created(e) == env[e].pc # "none"
DestroyResolved(e) == task[e]["user"].resolvedOnce
DestroyRunning(e) == task[e]["user"].pc \notin {"idle", "done"}
\* A storeData/retrieveData call passes both checks and starts its I/O, or
\* an execute call passes its check and starts fn.
OpAccepted(e) ==
  \/ \E c \in Calls : op[e][c].pc = "idle" /\ op'[e][c].pc = "io"
  \/ ~exec[e] /\ exec'[e]
Range(q) == {q[i] : i \in 1..Len(q)}
Rank(step) == CHOOSE i \in 1..Len(Steps) : Steps[i] = step

\* C1: once handle.destroy() has resolved, with success or with a failure
\* report, no later storeData, retrieveData or execute call is accepted.
C1_PostDestroyLockout ==
  [][\A e \in Envs : DestroyResolved(e) => ~OpAccepted(e)]_vars

\* C2: handle.destroy() never rejects: whatever fails among the firewall
\* restore, the storage destruction and the memory cleanup, a destroy() that
\* has ended has resolved with a boolean report.
C2_DestroyNeverRejects ==
  \A e \in Envs :
    LET t == task[e]["user"] IN
    /\ t.outcome # "rejected"
    /\ t.pc = "done" => t.outcome = "resolved" /\ t.success \in BOOLEAN

\* C2 witness: a destroy() that resolved although all three steps failed.
C2_Witness ==
  \E e \in Envs :
    /\ task[e]["user"].pc = "done"
    /\ task[e]["user"].outcome = "resolved"
    /\ task[e]["user"].fails = {"net", "store", "mem"}

\* C3: handle.destroy() attempts its steps in the order restore network,
\* restore filesystem, destroy store, clean memory, and a destroy() that has
\* ended attempted every step the environment was configured with, whatever
\* failed before it.
C3_OrderedAndContinues ==
  \A e \in Envs :
    LET t == task[e]["user"]
        done == Range(t.log)
    IN /\ \A i, j \in 1..Len(t.log) : i < j => Rank(t.log[i]) < Rank(t.log[j])
       /\ (t.pc = "done" /\ t.wasActive) =>
            /\ "store" \in done
            /\ env[e].opts.restrictFileSystem => "fs" \in done
            /\ env[e].opts.protectMemory => "mem" \in done
            /\ (env[e].opts.blockNetwork /\ ~t.retry) => "net" \in done

\* C3 witness: the firewall restore and the storage destruction failed and
\* all four steps were attempted in order.
C3_Witness ==
  \E e \in Envs :
    /\ task[e]["user"].pc = "done"
    /\ task[e]["user"].log = Steps
    /\ {"net", "store"} \subseteq task[e]["user"].fails

\* C4: no two files an environment stored carry the same nonce.
C4_NonceUnique ==
  \A n \in AllNames : \A k1, k2 \in FileNames :
    LET f1 == disk[n].files[k1]
        f2 == disk[n].files[k2]
    IN (k1 # k2 /\ f1.kind = "blob" /\ f2.kind = "blob"
          /\ f1.tag.k = f2.tag.k)
         => f1.nonce # f2.nonce

\* C9: while handle.destroy() is running, no storeData, retrieveData or
\* execute call is accepted.
C9_DestroyExcludesOps ==
  [][\A e \in Envs : DestroyRunning(e) => ~OpAccepted(e)]_vars

\* An environment is Active: initialize() has finished and no destroy() of
\* it has begun.
Active(e) ==
  /\ env[e].isActive
  /\ task[e]["user"].pc = "idle"
  /\ ~task[e]["user"].resolvedOnce
Blocked(p) == netEntry[p] \in Envs

\* C5: while an environment created with network blocking is Active, every
\* network entry point is a blocking stub (no call reaches an original),
\* whatever other environments are created and destroyed meanwhile.
C5_BlockedWhileActive ==
  \A e \in Envs :
    (Active(e) /\ env[e].opts.blockNetwork) =>
      \A p \in NetPoints : Blocked(p)

\* The isolation of environment e is installed: its blocker has overridden
\* the network entry points, or it holds saved fs methods.
IsolationInstalled(e) ==
  \/ env[e].networkBlocker
  \/ \E m \in FsMethods : env[e].originalFileHandles[m] # Undef

\* C6: a second environment is not set up while another environment's
\* isolation is installed: the entry points are never patched twice over.
C6_NoSecondIsolation ==
  \A e1, e2 \in Envs :
    e1 # e2 => ~(IsolationInstalled(e1) /\ IsolationInstalled(e2))

\* Every environment that was created has been destroyed: its handle's
\* destroy() has resolved and none is running.
AllDestroyed ==
  /\ \E e \in Envs : Created(e)
  /\ \A e \in Envs : Created(e) =>
       env[e].pc = "ready" /\ task[e]["user"].pc = "done"

\* C7: once every environment that was created has been destroyed, the
\* network and filesystem entry points are the original functions again.
C7_OriginalsRestored ==
  AllDestroyed =>
    /\ \A p \in NetPoints : netEntry[p] = Orig
    /\ \A m \in FsMethods : fsEntry[m] = Orig

\* C8: while the filesystem restriction is active, a read, write or delete
\* call with a path outside the allow-list is rejected, and a call with a
\* path inside it is passed to the original function.
C8_OutsideRejected ==
  (lastFs.restricted /\ lastFs.method \in {"readFile", "writeFile", "unlink"})
    => lastFs.outcome = IF lastFs.allowed THEN "passed" ELSE "denied"

Deleting(e, s) == task[e][s].pc \in {"readdir", "del", "rmdir"}

\* C11: the destruction of an environment's storage directory is never
\* running twice at once: at most one of handle.destroy(), the environment's
\* signal listener and the storage's signal listener is inside
\* secureDeleteDirectory on it.
C11_DestroyedOnce ==
  \A e \in Envs : Cardinality({s \in Slots : Deleting(e, s)}) <= 1

\* A complete output of _encrypt under environment e's key.
WholeBlob(e, file) ==
  /\ file.kind = "blob"
  /\ file.tag = Mac(e, file.nonce, file.ct)

\* C12: stores on one key are serialized: once no store on a file is in
\* flight, the file is the complete output of one _encrypt, and a retrieve
\* never reads a file that is not.
C12_SameKeySerialized ==
  /\ \A e \in Envs : \A k \in Keys :
       LET file == disk[env[e].name].files[SanitizeKey(k)]
       IN (/\ env[e].pc = "ready"
           /\ file.present
           /\ \A k2 \in Keys :
                SanitizeKey(k2) = SanitizeKey(k) => ~StoreInFlight(e, k2))
            => WholeBlob(e, file)
  /\ (lastOp.kind = "retrieve" /\ lastOp.saw.present)
       => \E e \in Envs : WholeBlob(e, lastOp.saw)

\* What retrieve(k) returns in the present state.
RetrieveNow(e, k) ==
  LET n == env[e].name
      file == disk[n].files[SanitizeKey(k)]
  IN IF disk[n].exists /\ file.present
     THEN Decrypt(EncryptionKey(e), file)
     ELSE [res |-> "enoent", data |-> <<>>]

\* C13: for two different keys, once a store on each has completed (and no
\* other store on either has begun since), retrieve returns for each key the
\* data stored under it.
C13_DistinctKeysIndependent ==
  \A e \in Envs : \A k1, k2 \in Keys :
    (k1 # k2 /\ stored[e][k1].known /\ stored[e][k2].known)
      => /\ RetrieveNow(e, k1) = [res |-> "ok", data |-> stored[e][k1].d]
         /\ RetrieveNow(e, k2) = [res |-> "ok", data |-> stored[e][k2].d]

\* C14: a retrieve(k) issued after store(k, d) completed, with no store on k
\* begun between that store's completion and the retrieve's return, returns
\* exactly d.
C14_RoundTrip ==
  (lastOp.kind = "retrieve" /\ lastOp.expect.known)
    => lastOp.res = "ok" /\ lastOp.data = lastOp.expect.d

\* C15: a retrieve of a file of which a bit of the nonce, of the tag or of
\* the ciphertext was flipped after it was stored fails with the integrity
\* error of the tag check and returns no data.
C15_TamperDetected ==
  (lastOp.kind = "retrieve" /\ lastOp.altered \in {"nonce", "tag", "ct"})
    => lastOp.res = "integrity" /\ lastOp.data = <<>>

\* A retrieve met a flipped ciphertext byte and failed.
C15_Witness ==
  /\ lastOp.kind = "retrieve"
  /\ lastOp.altered = "ct"
  /\ lastOp.res = "integrity"

\* C15 as stated: a retrieve of a file altered in any way after it was
\* stored fails with the integrity error.
C15_AnyAlteration ==
  (lastOp.kind = "retrieve" /\ lastOp.altered # "none")
    => lastOp.res = "integrity"

C17_ExclusiveRoot ==
  \A e1 \in Envs : \A e2 \in Envs \ {e1} :
    Active(e1) /\ Active(e2) => env[e1].name # env[e2].name

\* C18: a secureDelete of an existing file whose I/O meets no fault
\* resolves and leaves the path absent, on every platform.
C18_PlatformsConverge ==
  (lastDel.io = "ok" /\ lastDel.existed) => ~lastDel.threw /\ ~lastDel.left

\* C19: a secureDelete of an existing file whose overwrite fails once
\* succeeds on the retry and removes the file; one whose overwrite fails
\* every time throws and leaves the file.
C19_RetriedOnce ==
  /\ (lastDel.io = "fails_once" /\ lastDel.existed)
       => ~lastDel.threw /\ ~lastDel.left
  /\ (lastDel.io = "fails" /\ lastDel.existed)
       => lastDel.threw /\ lastDel.left

\* C20: verifyDeletion never throws, reports exists with a 'still exists'
\* detail exactly when the path is there, a 'does not exist' detail when it
\* is not, and always a 'Storage type' detail.
C20_VerifyDeletion ==
  lastVer.called =>
    /\ ~lastVer.threw
    /\ lastVer.exists = lastVer.present
    /\ lastVer.present => "still exists" \in lastVer.details
    /\ ~lastVer.present => "does not exist" \in lastVer.details
    /\ "Storage type" \in lastVer.details

\* C21: while the function of an execute call is running, no step
\* completes a handle.destroy() of that environment and no step removes its
\* storage directory or marks its storage destroyed.
C21_DestroyWaitsForExecute ==
  [][\A e \in Envs :
       exec[e] =>
         /\ ~(task[e]["user"].pc # "done" /\ task'[e]["user"].pc = "done")
         /\ disk[env[e].name].exists => disk'[env[e].name].exists
         /\ ~env[e].isDestroyed => ~env'[e].isDestroyed]_vars

\* C22: when the storage directory of an environment comes into being,
\* the network blocking and the filesystem restriction that the
\* environment was created with are already in effect.
C22_IsolationBeforeStorage ==
  [][\A e \in Envs :
       (/\ env[e].pc = "c_storage"
        /\ ~disk[env[e].name].exists
        /\ disk'[env[e].name].exists)
         => /\ env[e].opts.blockNetwork
                 => \A p \in NetPoints : netEntry[p] = e
            /\ env[e].opts.restrictFileSystem
                 => \A m \in FsOverridden : fsEntry[m] = e]_vars

\* C23: once restore() has restored the entry points of a NetworkBlocker,
\* that instance never blocks again: none of its stubs is installed and no
\* blockAll() of it is under way.
C23_GuardOneDirectional ==
  \A g \in Guards :
    (guard[g].restored /\ guard[g].pc # "fw_restore")
      => /\ ~guard[g].isBlocking
         /\ guard[g].pc # "fw_block"
         /\ \A p \in NetPoints : netEntry[p] # GuardStub(g)

C25_PatternSchedule ==
  /\ \A k \in 1..Len(ow.log) :
       LET ev == ow.log[k] IN
       ev.ev = "write" =>
         /\ ev.i = 0 => ev.pat = "1"
         /\ (ev.i > 0 /\ ev.i = ow.passes - 1) => ev.pat = "0"
         /\ (ev.i > 0 /\ ev.i < ow.passes - 1) => ev.pat = "r"
  /\ (ow.pc = "unlink" /\ ow.passes > 1) => ow.content = Fill(ow.size, "0")
  /\ (ow.pc = "unlink" /\ ow.passes = 1) => ow.content = Fill(ow.size, "1")

\* A file overwritten in a single pass is about to be unlinked.
C25_Witness ==
  /\ ow.pc = "unlink"
  /\ ow.passes = 1
  /\ ow.size > 0

\* C25 as stated: whenever there is a pass, the last one writes zeros and
\* the file is all zeros when it is unlinked.
C25_ZerosBeforeUnlink ==
  /\ \A k \in 1..Len(ow.log) :
       LET ev == ow.log[k] IN
       ev.ev = "write" =>
         /\ ev.i = 0 => ev.pat = "1"
         /\ ev.i = ow.passes - 1 => ev.pat = "0"
  /\ (ow.pc = "unlink" /\ ow.passes > 0) => ow.content = Fill(ow.size, "0")

\* C26: a secureDeleteDirectory that has succeeded leaves nothing of the
\* tree; at no time is an entry there whose directory is not; and no file
\* that was there at the call is gone without secureDelete having removed
\* it.
C26_DirectoryDeleted ==
  /\ dd.pc = "done" => \A n \in Nodes : dd.tree[n] = "absent"
  /\ \A n \in Nodes \ {<<>>} :
       dd.tree[n] # "absent" => dd.tree[Parent(n)] = "dir"
  /\ \A n \in Nodes :
       (dd.start[n] = "file" /\ dd.tree[n] = "absent") => n \in dd.wiped

\* A tree with a file at the greatest depth was deleted.
C26_Witness ==
  /\ dd.pc = "done"
  /\ \E n \in Nodes : Len(n) = MaxDepth + 1 /\ dd.start[n] = "file"

\* C27: the name _sanitizeKey returns for a key has no path separator, is
\* not empty, is neither '.' nor '..', and joined to the storage path gives
\* a file directly in the storage directory.
C27_SanitizedInsideRoot ==
  san.called =>
    /\ \A i \in 1..Len(san.name) : san.name[i] # "/"
    /\ san.name \notin {<<>>, <<".">>, <<".", ".">>}
    /\ JoinStoragePath(san.name) = "child"

\* C28: when createSecureEnvironment has rejected, nothing it installed is
\* left: no network or fs entry point is a stub of that environment and
\* its storage directory is not there.
C28_FailedCreateLeavesNothing ==
  \A e \in Envs :
    env[e].pc = "failed" =>
      /\ \A p \in NetPoints : netEntry[p] # e
      /\ \A m \in FsMethods : fsEntry[m] # e
      /\ ~disk[env[e].name].exists

\* C29: a handle.destroy() that ended with the storage destruction failed
\* leaves the storage not destroyed, its key intact and the environment
\* active; a later handle.destroy() runs the storage destruction again; and
\* when that one succeeds the storage directory is gone, the key and the iv
\* are zeroed and the environment is inactive.
C29_DestroyRetriable ==
  \A e \in Envs :
    LET t == task[e]["user"] IN
    t.pc = "done" =>
      /\ "store" \in t.fails =>
           /\ ~t.success
           /\ ~env[e].isDestroyed
           /\ ~env[e].keyZeroed
           /\ env[e].secureStorage
           /\ env[e].isActive
      /\ (t.retry /\ t.wasActive) => "store" \in Range(t.log)
      /\ (t.retry /\ t.wasActive /\ "store" \notin t.fails) =>
           /\ ~disk[env[e].name].exists
           /\ env[e].isDestroyed
           /\ env[e].keyZeroed
           /\ ~env[e].isActive

\* A second handle.destroy() succeeded where the first had failed.
C29_Witness ==
  \E e \in Envs :
    LET t == task[e]["user"] IN
    /\ t.pc = "done"
    /\ t.retry
    /\ t.wasActive
    /\ "store" \notin t.fails
    /\ env[e].keyZeroed
    /\ ~disk[env[e].name].exists

\* C30: once handle.destroy() has resolved for an environment created with
\* memory protection, neither the garbage-collection interval nor the
\* debugger-check interval of its memory protection is still scheduled.
C30_NoTimerAfterDestroy ==
  \A e \in Envs :
    (env[e].opts.protectMemory /\ task[e]["user"].pc = "done"
       /\ task[e]["user"].outcome = "resolved")
      => ~env[e].gcInterval /\ ~env[e].debuggerCheckInterval

====
